---------------------------- MODULE Spec2Model ----------------------------
(***************************************************************************)
(* Model of the LotteryPrediction ingestion pipeline (app/data_fetcher.py), *)
(* its callers (app/routes.py, app/scripts/update_data.py), the stored      *)
(* draw records (app/models.py) and the prediction helpers                  *)
(* (app/predictions.py).                                                    *)
(*                                                                         *)
(* Text is modelled by TLA+ strings (sequences of characters): keys,       *)
(* cell values and the comma-joined number columns are real strings, and   *)
(* str.startswith, the substring test, str.replace, str.strip, int() and   *)
(* ",".join / split are computed on them.                                  *)
(***************************************************************************)
EXTENDS Integers, Sequences, FiniteSets, TLC

(***************************************************************************)
(* Bounds of the model.                                                    *)
(***************************************************************************)
\* data rows published in the two source documents together
MaxRows == 3
\* calls of update_all_draws in one behaviour
MaxCalls == 2

(***************************************************************************)
(* Python string primitives.                                               *)
(***************************************************************************)
Digits == <<"0", "1", "2", "3", "4", "5", "6", "7", "8", "9">>

IsDigit(c) == \E i \in 1..10 : Digits[i] = c

DigitVal(c) == (CHOOSE i \in 1..10 : Digits[i] = c) - 1

Uppers == <<"A","B","C","D","E","F","G","H","I","J","K","L","M",
            "N","O","P","Q","R","S","T","U","V","W","X","Y","Z">>

Lowers == <<"a","b","c","d","e","f","g","h","i","j","k","l","m",
            "n","o","p","q","r","s","t","u","v","w","x","y","z">>

IsLower(c) == \E i \in 1..26 : Lowers[i] = c

LowerChar(c) ==
    IF \E i \in 1..26 : Uppers[i] = c
    THEN Lowers[CHOOSE i \in 1..26 : Uppers[i] = c]
    ELSE c

\* the character at position i of s, as a one-character string
At(s, i) == SubSeq(s, i, i)

\* str.startswith
StartsWith(s, p) == Len(s) >= Len(p) /\ SubSeq(s, 1, Len(p)) = p

\* the `t in s` substring test
Contains(s, t) ==
    \E i \in 1..(Len(s) - Len(t) + 1) : SubSeq(s, i, i + Len(t) - 1) = t

RECURSIVE MapChars(_, _, _)
\* s with every character c replaced by the string F[c] is built by the
\* callers below; this is the shared left-to-right walk
MapChars(s, i, kind) ==
    IF i > Len(s) THEN ""
    ELSE LET c == At(s, i)
             out == CASE kind = "lower" -> LowerChar(c)
                      [] kind = "translate" ->
                            IF c \in {" ", "-", "/", "\\"} THEN "_"
                            ELSE IF c \in {".", ",", ";", ":", "'", "(", ")"} THEN ""
                            ELSE c
                      [] OTHER -> c
         IN out \o MapChars(s, i + 1, kind)

\* str.lower
Lower(s) == MapChars(s, 1, "lower")

RECURSIVE LStripFrom(_, _, _)
LStripFrom(s, i, c) ==
    IF i <= Len(s) /\ At(s, i) = c THEN LStripFrom(s, i + 1, c)
    ELSE SubSeq(s, i, Len(s))

\* str.lstrip(c) for a single character c
LStripChar(s, c) == LStripFrom(s, 1, c)

RECURSIVE RStripChar(_, _)
\* str.rstrip(c) for a single character c
RStripChar(s, c) ==
    IF Len(s) > 0 /\ At(s, Len(s)) = c
    THEN RStripChar(SubSeq(s, 1, Len(s) - 1), c)
    ELSE s

\* str.strip(c)
StripChar(s, c) == RStripChar(LStripChar(s, c), c)

\* str.strip() (the blank is the only whitespace of the modelled alphabet)
Strip(s) == StripChar(s, " ")

RECURSIVE ReplaceFrom(_, _, _, _)
ReplaceFrom(s, i, old, new) ==
    IF i > Len(s) THEN ""
    ELSE IF Len(old) > 0 /\ i + Len(old) - 1 <= Len(s)
            /\ SubSeq(s, i, i + Len(old) - 1) = old
         THEN new \o ReplaceFrom(s, i + Len(old), old, new)
         ELSE At(s, i) \o ReplaceFrom(s, i + 1, old, new)

\* str.replace(old, new): every non-overlapping occurrence, left to right
Replace(s, old, new) == ReplaceFrom(s, 1, old, new)

RECURSIVE DigitRun(_, _)
\* re.match(r"(\d+)", s): the leading run of digits of s from position i
DigitRun(s, i) ==
    IF i <= Len(s) /\ IsDigit(At(s, i)) THEN At(s, i) \o DigitRun(s, i + 1)
    ELSE ""

RECURSIVE DecimalValue(_, _)
\* the value of the digit string s read up to position n
DecimalValue(s, n) ==
    IF n = 0 THEN 0 ELSE 10 * DecimalValue(s, n - 1) + DigitVal(At(s, n))

AllDigits(s) == Len(s) > 0 /\ \A i \in 1..Len(s) : IsDigit(At(s, i))

\* int(s) of Python on an already stripped text: an optional sign and
\* decimal digits; anything else is a ValueError
PyIntOk(s) ==
    \/ AllDigits(s)
    \/ Len(s) > 1 /\ At(s, 1) \in {"+", "-"} /\ AllDigits(SubSeq(s, 2, Len(s)))

PyIntVal(s) ==
    IF At(s, 1) = "-" THEN 0 - DecimalValue(SubSeq(s, 2, Len(s)), Len(s) - 1)
    ELSE IF At(s, 1) = "+" THEN DecimalValue(SubSeq(s, 2, Len(s)), Len(s) - 1)
    ELSE DecimalValue(s, Len(s))

RECURSIVE SplitFrom(_, _, _, _)
SplitFrom(s, i, sep, cur) ==
    IF i > Len(s) THEN <<cur>>
    ELSE IF At(s, i) = sep THEN <<cur>> \o SplitFrom(s, i + 1, sep, "")
    ELSE SplitFrom(s, i + 1, sep, cur \o At(s, i))

\* str.split(sep) for a one-character separator
Split(s, sep) == SplitFrom(s, 1, sep, "")

RECURSIVE Join(_, _)
\* sep.join(strs)
Join(strs, sep) ==
    IF Len(strs) = 0 THEN ""
    ELSE IF Len(strs) = 1 THEN strs[1]
    ELSE strs[1] \o sep \o Join(Tail(strs), sep)

(***************************************************************************)
(* Python list primitives.                                                 *)
(***************************************************************************)
RECURSIVE SortedSeqOf(_)
\* sorted(set(...)): the members of a finite set of integers, ascending
SortedSeqOf(S) ==
    IF S = {} THEN <<>>
    ELSE LET m == CHOOSE x \in S : \A y \in S : x <= y
         IN <<m>> \o SortedSeqOf(S \ {m})

Range(seq) == {seq[i] : i \in 1..Len(seq)}

\* the numbers left as extracted
AsExtracted(numbers) == numbers

\* sorted(set(numbers))
SortedSet(numbers) == SortedSeqOf(Range(numbers))

StrictlyAscending(seq) == \A i \in 1..(Len(seq) - 1) : seq[i] < seq[i + 1]


(***************************************************************************)
(* Rows are Python dicts in insertion order: sequences of <<key, value>>.  *)
(***************************************************************************)
HasKey(row, key) == \E i \in 1..Len(row) : row[i][1] = key

Get(row, key) == row[CHOOSE i \in 1..Len(row) : row[i][1] = key][2]

\* row[key] = value: an existing key keeps its place and takes the value
DictSet(row, key, value) ==
    IF HasKey(row, key)
    THEN [i \in 1..Len(row) |-> IF row[i][1] = key THEN <<key, value>> ELSE row[i]]
    ELSE Append(row, <<key, value>>)

(***************************************************************************)
(* Optional[int] results and raised FetchError.                            *)
(***************************************************************************)
NoneVal == [tag |-> "none", v |-> 0]

IntVal(n) == [tag |-> "int", v |-> n]

Raised == [tag |-> "raise", v |-> 0]

\* _parse_int on a text value (rows only hold text): None for blank text,
\* FetchError for text int() rejects
_parse_int(value) ==
    LET stripped == Strip(value)
    IN IF stripped = "" THEN NoneVal
       ELSE IF PyIntOk(stripped) THEN IntVal(PyIntVal(stripped))
       ELSE Raised

(***************************************************************************)
(* dateutil's parser.parse(text, dayfirst=True), for the day-first numeric *)
(* texts d/m/y that the modelled documents use; any other text is a        *)
(* ParserError.  The time of day is dropped by .date().                    *)
(***************************************************************************)
DateTextOk(text) ==
    LET f == Split(text, "/")
    IN /\ Len(f) = 3
       /\ \A i \in 1..3 : AllDigits(f[i])
       /\ DecimalValue(f[1], Len(f[1])) \in 1..31
       /\ DecimalValue(f[2], Len(f[2])) \in 1..12

DateOfText(text) ==
    LET f == Split(text, "/")
    IN [y |-> DecimalValue(f[3], Len(f[3])),
        m |-> DecimalValue(f[2], Len(f[2])),
        d |-> DecimalValue(f[1], Len(f[1]))]

NoDate == [y |-> 0, m |-> 0, d |-> 0]

DateKeys == <<"date_de_tirage", "date_du_tirage", "date", "drawdate">>

RECURSIVE ParseDateFrom(_, _)
ParseDateFrom(row, k) ==
    IF k > Len(DateKeys) THEN [ok |-> FALSE, date |-> NoDate]
    ELSE IF HasKey(row, DateKeys[k]) /\ Get(row, DateKeys[k]) # ""
         THEN IF DateTextOk(Get(row, DateKeys[k]))
              THEN [ok |-> TRUE, date |-> DateOfText(Get(row, DateKeys[k]))]
              ELSE [ok |-> FALSE, date |-> NoDate]
         ELSE ParseDateFrom(row, k + 1)

\* _parse_date(row).date(): ok = FALSE stands for the raised FetchError
_parse_date(row) == ParseDateFrom(row, 1)

DrawNumberKeys ==
    <<"numero_de_tirage", "numero_du_tirage", "num_tirage", "n_tirage",
      "tirage", "drawnumber">>

RECURSIVE ParseDrawNumberFrom(_, _)
ParseDrawNumberFrom(row, k) ==
    IF k > Len(DrawNumberKeys) THEN NoneVal
    ELSE IF HasKey(row, DrawNumberKeys[k])
         THEN _parse_int(Get(row, DrawNumberKeys[k]))
         ELSE ParseDrawNumberFrom(row, k + 1)

_parse_draw_number(row) == ParseDrawNumberFrom(row, 1)

(***************************************************************************)
(* _extract_numbers                                                        *)
(***************************************************************************)
ExtraTerms == {"chance", "bonus", "complementaire"}

HasAnyTerm(key, terms) == \E t \in terms : Contains(key, t)

RECURSIVE InsertByIndex(_, _)
\* sort(key=item[0]) is stable: an item goes after the items of equal index
InsertByIndex(sorted, item) ==
    IF Len(sorted) = 0 THEN <<item>>
    ELSE IF sorted[Len(sorted)][1] <= item[1] THEN Append(sorted, item)
    ELSE Append(InsertByIndex(SubSeq(sorted, 1, Len(sorted) - 1), item),
                sorted[Len(sorted)])

RECURSIVE ExtractFrom(_, _, _, _)
\* the loop of _extract_numbers from row position i on; acc holds the
\* (index, value) pairs extracted so far
ExtractFrom(row, i, prefix, acc) ==
    IF i > Len(row) THEN [err |-> FALSE, items |-> acc]
    ELSE LET key == row[i][1]
             value == row[i][2]
             suffix == LStripChar(Replace(key, prefix, ""), "_")
             digits == DigitRun(suffix, 1)
         IN IF value = "" \/ HasAnyTerm(key, {"tirage"} \cup ExtraTerms)
            THEN ExtractFrom(row, i + 1, prefix, acc)
            ELSE IF ~StartsWith(key, prefix) \/ digits = ""
            THEN ExtractFrom(row, i + 1, prefix, acc)
            ELSE IF _parse_int(value).tag = "raise"
            THEN [err |-> TRUE, items |-> <<>>]
            ELSE IF _parse_int(value).tag = "none"
            THEN ExtractFrom(row, i + 1, prefix, acc)
            ELSE ExtractFrom(row, i + 1, prefix,
                     Append(acc, <<DecimalValue(digits, Len(digits)),
                                   _parse_int(value).v>>))

RECURSIVE SortItems(_, _)
SortItems(items, n) ==
    IF n = 0 THEN <<>> ELSE InsertByIndex(SortItems(items, n - 1), items[n])

\* _extract_numbers(row, prefix): err = TRUE stands for the FetchError of
\* _parse_int; numbers are the values in the order of their column index
_extract_numbers(row, prefix) ==
    LET r == ExtractFrom(row, 1, prefix, <<>>)
        sorted == SortItems(r.items, Len(r.items))
    IN [err |-> r.err,
        numbers |-> [i \in 1..Len(sorted) |-> sorted[i][2]]]


(***************************************************************************)
(* Spreadsheet cells (openpyxl values): None, a number or a text.  An      *)
(* integer-valued float cell formats like the integer.                     *)
(***************************************************************************)
NoneCell == [t |-> "none", s |-> "", n |-> 0]

Txt(s) == [t |-> "str", s |-> s, n |-> 0]

Num(n) == [t |-> "int", s |-> "", n |-> n]

\* str(cell)
StrOfCell(cell) ==
    CASE cell.t = "none" -> "None"
      [] cell.t = "int" -> ToString(cell.n)
      [] OTHER -> cell.s

_format_cell(value) ==
    CASE value.t = "none" -> ""
      [] value.t = "int" -> ToString(value.n)
      [] OTHER -> Strip(value.s)

RECURSIVE SeparateFrom(_, _, _)
\* re.sub(r"([a-z])([0-9])", r"\1_\2", s) for letterFirst, and
\* re.sub(r"([0-9])([a-z])", r"\1_\2", s) otherwise
SeparateFrom(s, i, letterFirst) ==
    IF i > Len(s) THEN ""
    ELSE IF i < Len(s)
            /\ (IF letterFirst
                THEN IsLower(At(s, i)) /\ IsDigit(At(s, i + 1))
                ELSE IsDigit(At(s, i)) /\ IsLower(At(s, i + 1)))
         THEN At(s, i) \o "_" \o SeparateFrom(s, i + 1, letterFirst)
         ELSE At(s, i) \o SeparateFrom(s, i + 1, letterFirst)

RECURSIVE CollapseFrom(_, _)
\* re.sub(r"__+", "_", s)
CollapseFrom(s, i) ==
    IF i > Len(s) THEN ""
    ELSE IF At(s, i) = "_" /\ i < Len(s) /\ At(s, i + 1) = "_"
         THEN CollapseFrom(s, i + 1)
         ELSE At(s, i) \o CollapseFrom(s, i + 1)

\* _normalize_header on the ASCII alphabet (NFKD changes no ASCII character)
_normalize_header(value) ==
    LET lowered == Lower(value)
        translated == MapChars(lowered, 1, "translate")
        sep1 == SeparateFrom(translated, 1, TRUE)
        sep2 == SeparateFrom(sep1, 1, FALSE)
    IN StripChar(CollapseFrom(sep2, 1), "_")

MainPrefixes == {"boule", "numero", "num", "n_"}

\* the count of main-number cells without the exclusion of "tirage"
looks_like_header_counting_tirage(headers) ==
    LET has_date == \E i \in 1..Len(headers) : Contains(headers[i], "date")
        main_candidates ==
            Cardinality({i \in 1..Len(headers) :
                \E p \in MainPrefixes : StartsWith(headers[i], p)})
        has_extra == \E i \in 1..Len(headers) : HasAnyTerm(headers[i], ExtraTerms)
    IN Len(headers) > 0 /\ has_date /\ main_candidates >= 5 /\ has_extra

_looks_like_lotto_header(headers) ==
    LET has_date == \E i \in 1..Len(headers) : Contains(headers[i], "date")
        main_candidates ==
            Cardinality({i \in 1..Len(headers) :
                /\ \E p \in MainPrefixes : StartsWith(headers[i], p)
                /\ ~Contains(headers[i], "tirage")})
        has_extra == \E i \in 1..Len(headers) : HasAnyTerm(headers[i], ExtraTerms)
    IN Len(headers) > 0 /\ has_date /\ main_candidates >= 5 /\ has_extra

NormalizedRow(row) ==
    [i \in 1..Len(row) |->
        IF row[i].t = "none" \/ (row[i].t = "str" /\ row[i].s = "") THEN ""
        ELSE _normalize_header(StrOfCell(row[i]))]

RECURSIVE HeaderIndexFrom(_, _)
\* the index of the first row that looks like a header, 0 when there is none
HeaderIndexFrom(rows, index) ==
    IF index > Len(rows) THEN 0
    ELSE IF _looks_like_lotto_header(NormalizedRow(rows[index])) THEN index
    ELSE HeaderIndexFrom(rows, index + 1)

RECURSIVE RowDataFrom(_, _, _, _)
RowDataFrom(row, header, idx, acc) ==
    IF idx > Len(row) THEN acc
    ELSE IF idx > Len(header) \/ header[idx] = "" \/ _format_cell(row[idx]) = ""
         THEN RowDataFrom(row, header, idx + 1, acc)
         ELSE RowDataFrom(row, header, idx + 1,
                          DictSet(acc, header[idx], _format_cell(row[idx])))

RECURSIVE YieldFrom(_, _, _)
YieldFrom(rows, header, i) ==
    IF i > Len(rows) THEN <<>>
    ELSE LET row_data == RowDataFrom(rows[i], header, 1, <<>>)
         IN IF row_data = <<>> THEN YieldFrom(rows, header, i + 1)
            ELSE <<row_data>> \o YieldFrom(rows, header, i + 1)

\* _prepare_lotto_rows: found = FALSE stands for the FetchError raised when
\* no row looks like a header; rows are the dicts the generator yields
_prepare_lotto_rows(rows) ==
    LET header_index == HeaderIndexFrom(rows, 1)
    IN IF header_index = 0 THEN [found |-> FALSE, rows |-> <<>>]
       ELSE [found |-> TRUE,
             rows |-> YieldFrom(rows, NormalizedRow(rows[header_index]),
                                header_index + 1)]

(***************************************************************************)
(* _prepare_reader: a parsed delimited text is a header line and data      *)
(* lines of fields.  csv.DictReader fills the missing fields of a short    *)
(* line with None, and value.strip() on None raises AttributeError; the    *)
(* fields beyond the header go under the key None, which is dropped.       *)
(***************************************************************************)
RECURSIVE ReaderRowFrom(_, _, _, _)
ReaderRowFrom(header, line, i, acc) ==
    IF i > Len(header) THEN acc
    ELSE IF header[i] = "" THEN ReaderRowFrom(header, line, i + 1, acc)
    ELSE ReaderRowFrom(header, line, i + 1,
                       DictSet(acc, Lower(Strip(header[i])), Strip(line[i])))

_prepare_reader(header, line) ==
    IF Len(line) < Len(header) THEN [err |-> TRUE, row |-> <<>>]
    ELSE [err |-> FALSE, row |-> ReaderRowFrom(header, line, 1, <<>>)]


(***************************************************************************)
(* Row canonicalisation: the body of the row loops of update_loto_draws    *)
(* and update_euromillions_draws up to the store lookup.  kind is "raise"  *)
(* (FetchError), "skip" (continue) or "ok".                                *)
(***************************************************************************)
NumberPrefixes == <<"boule_", "boule", "numero_", "num_", "n_">>

RECURSIVE PrefixLoop(_, _)
\* for prefix in number_prefixes: if numbers: break; numbers = ...
PrefixLoop(row, k) ==
    IF k > Len(NumberPrefixes) THEN [err |-> FALSE, numbers |-> <<>>]
    ELSE LET r == _extract_numbers(row, NumberPrefixes[k])
         IN IF r.err \/ r.numbers # <<>> THEN r ELSE PrefixLoop(row, k + 1)

RECURSIVE FallbackFrom(_, _, _)
\* the positional fallback: every cell whose key names no date, draw index
\* or extra number; acc is the set of the values parsed so far
FallbackFrom(row, i, acc) ==
    IF i > Len(row) THEN [err |-> FALSE, numbers |-> SortedSeqOf(acc)]
    ELSE IF HasAnyTerm(row[i][1], {"date", "tirage"} \cup ExtraTerms)
         THEN FallbackFrom(row, i + 1, acc)
         ELSE IF _parse_int(row[i][2]).tag = "raise"
              THEN [err |-> TRUE, numbers |-> <<>>]
              ELSE IF _parse_int(row[i][2]).tag = "none"
                   THEN FallbackFrom(row, i + 1, acc)
                   ELSE FallbackFrom(row, i + 1, acc \cup {_parse_int(row[i][2]).v})

LotoNumbers(row) ==
    LET r == PrefixLoop(row, 1)
    IN IF r.err \/ r.numbers # <<>> THEN r ELSE FallbackFrom(row, 1, {})

RECURSIVE ChanceFromLast(_, _, _)
\* the loop without its break: the last extra cell that parses to a number
ChanceFromLast(row, i, chance_number) ==
    IF i > Len(row) THEN chance_number
    ELSE IF HasAnyTerm(row[i][1], ExtraTerms)
         THEN IF _parse_int(row[i][2]).tag = "raise"
              THEN _parse_int(row[i][2])
              ELSE IF _parse_int(row[i][2]).tag = "none"
              THEN ChanceFromLast(row, i + 1, chance_number)
              ELSE ChanceFromLast(row, i + 1, _parse_int(row[i][2]))
         ELSE ChanceFromLast(row, i + 1, chance_number)

RECURSIVE ChanceFrom(_, _, _)
\* the chance_number loop: the first extra cell that parses to a number
ChanceFrom(row, i, chance_number) ==
    IF i > Len(row) THEN chance_number
    ELSE IF HasAnyTerm(row[i][1], ExtraTerms)
         THEN IF _parse_int(row[i][2]).tag = "none"
              THEN ChanceFrom(row, i + 1, NoneVal)
              ELSE _parse_int(row[i][2])
         ELSE ChanceFrom(row, i + 1, chance_number)

LotoChance(row) == ChanceFrom(row, 1, NoneVal)

Canon(kind, date, number, numbers, extra) ==
    [kind |-> kind, draw_date |-> date, draw_number |-> number,
     numbers |-> numbers, extra |-> extra]

\* the first check alone, without the count after deduplication
LotoAcceptsAtLeastFive(numbers, chance_number) ==
    ~(Len(numbers) < 5 \/ chance_number.tag = "none")

\* the cardinality checks of update_loto_draws (lines 244-251)
LotoAccepts(numbers, chance_number) ==
    /\ ~(Len(numbers) < 5 \/ chance_number.tag = "none")
    /\ Len(SortedSet(numbers)) = 5

LotoCanon(row) ==
    LET draw_date == _parse_date(row)
        draw_number == _parse_draw_number(row)
        nums == LotoNumbers(row)
        chance_number == LotoChance(row)
    IN IF \/ ~draw_date.ok \/ draw_number.tag = "raise"
          \/ nums.err \/ chance_number.tag = "raise"
       THEN Canon("raise", NoDate, NoneVal, <<>>, <<>>)
       ELSE IF ~LotoAccepts(nums.numbers, chance_number)
       THEN Canon("skip", draw_date.date, draw_number, nums.numbers, <<>>)
       ELSE Canon("ok", draw_date.date, draw_number,
                  SortedSet(nums.numbers), <<chance_number.v>>)

\* the cardinality checks of update_euromillions_draws (lines 286-292)
EuroAccepts(numbers, stars) ==
    /\ ~(Len(numbers) < 5 \/ Len(stars) < 2)
    /\ Len(SortedSet(numbers)) = 5
    /\ Len(SortedSet(stars)) = 2

EuroCanon(row) ==
    LET draw_date == _parse_date(row)
        draw_number == _parse_draw_number(row)
        nums == _extract_numbers(row, "boule_")
        stars == _extract_numbers(row, "etoile_")
    IN IF ~draw_date.ok \/ draw_number.tag = "raise" \/ nums.err \/ stars.err
       THEN Canon("raise", NoDate, NoneVal, <<>>, <<>>)
       ELSE IF ~EuroAccepts(nums.numbers, stars.numbers)
       THEN Canon("skip", draw_date.date, draw_number, nums.numbers, <<>>)
       ELSE Canon("ok", draw_date.date, draw_number,
                  SortedSet(nums.numbers), SortedSet(stars.numbers))

(***************************************************************************)
(* Stored records (models.py).  main_numbers and star_numbers are the      *)
(* comma-joined texts the columns hold.                                    *)
(***************************************************************************)
\* ",".join(str(num) for num in numbers)
JoinNumbers(numbers) == Join([i \in 1..Len(numbers) |-> ToString(numbers[i])], ",")

\* [int(value) for value in text.split(",") if value]
NumbersOfText(text) ==
    LET parts == SelectSeq(Split(text, ","), LAMBDA part : part # "")
    IN [i \in 1..Len(parts) |-> PyIntVal(Strip(parts[i]))]

numbers_list(draw) == NumbersOfText(draw.main_numbers)

star_numbers_list(draw) == NumbersOfText(draw.star_numbers)

\* the autoincrement primary key of a new row of a table
NextId(table) ==
    IF table = {} THEN 1
    ELSE 1 + (CHOOSE i \in {r.id : r \in table} : \A r \in table : r.id <= i)

LotoDraw(table, c) ==
    [id |-> NextId(table), draw_date |-> c.draw_date,
     draw_number |-> c.draw_number,
     main_numbers |-> JoinNumbers(c.numbers), chance_number |-> c.extra[1]]

EuroMillionsDraw(table, c) ==
    [id |-> NextId(table), draw_date |-> c.draw_date,
     draw_number |-> c.draw_number,
     main_numbers |-> JoinNumbers(c.numbers),
     star_numbers |-> JoinNumbers(c.extra)]

\* the lookup with "draw_number = NULL", which no row satisfies
MatchingNullUnequal(table, c) ==
    {r \in table : /\ r.draw_date = c.draw_date
                   /\ r.draw_number = c.draw_number
                   /\ c.draw_number.tag = "int"}

\* select(...).where(draw_date == d, draw_number == n); a None draw_number
\* compiles to IS NULL, so two absent draw numbers match
Matching(table, c) ==
    {r \in table : r.draw_date = c.draw_date /\ r.draw_number = c.draw_number}


(***************************************************************************)
(* The published source documents.  A Loto workbook is a title row, the    *)
(* header row and data rows; a EuroMillions text is a header line and data *)
(* lines.  The data rows are drawn from the two sets below.                *)
(***************************************************************************)
LotoTitle == <<Txt("Statistiques Lotto"), NoneCell, NoneCell>>

LotoHeader ==
    <<Txt("Date"), Txt("N. tirage"), Txt("Boule 1"), Txt("Boule 2"),
      Txt("Boule 3"), Txt("Boule 4"), Txt("Boule 5"), Txt("Boule 6"),
      Txt("Chance"), Txt("Bonus")>>

LotoDataRows ==
    { \* a valid row, its numbers out of order
      <<Txt("01/02/2020"), Num(1), Num(3), Num(1), Num(2), Num(4), Num(5),
        NoneCell, Num(7), NoneCell>>,
      \* the same date (written differently) and draw index, other numbers
      <<Txt("1/2/2020"), Num(1), Num(6), Num(7), Num(8), Num(9), Num(10),
        NoneCell, Num(2), NoneCell>>,
      \* valid rows of one date with no draw index, the second with two
      \* extra cells
      <<Txt("05/02/2020"), NoneCell, Num(1), Num(2), Num(3), Num(4), Num(5),
        NoneCell, Num(7), NoneCell>>,
      <<Txt("05/02/2020"), NoneCell, Num(11), Num(12), Num(13), Num(14), Num(15),
        NoneCell, Num(4), Num(6)>>,
      \* four main numbers
      <<Txt("01/02/2020"), Num(2), Num(1), Num(2), Num(3), Num(4), NoneCell,
        NoneCell, Num(7), NoneCell>>,
      \* six main numbers
      <<Txt("01/02/2020"), Num(3), Num(1), Num(2), Num(3), Num(4), Num(5),
        Num(6), Num(7), NoneCell>>,
      \* no date
      <<NoneCell, Num(4), Num(1), Num(2), Num(3), Num(4), Num(5),
        NoneCell, Num(7), NoneCell>>,
      \* a non-numeric main-number cell
      <<Txt("01/02/2020"), Num(5), Txt("x"), Num(2), Num(3), Num(4), Num(5),
        NoneCell, Num(7), NoneCell>> }

EuroHeader ==
    <<"Date_de_tirage", "numero_de_tirage ", "boule_1", "boule_2", "boule_3",
      "boule_4", "boule_5", "etoile_1", "etoile_2">>

EuroDataLines ==
    { \* a valid line, numbers and stars out of order
      <<"01/02/2020", "1", "5", "4", "3", "2", "1", "2", "1">>,
      \* a valid line with an empty draw index
      <<"05/02/2020", "", "10", "20", "30", "40", "50", "11", "12">>,
      \* five main values with a repeat
      <<"05/02/2020", "2", "1", "2", "3", "4", "4", "3", "4">>,
      \* an empty date
      <<"", "3", "1", "2", "3", "4", "5", "3", "4">>,
      \* a non-numeric draw index
      <<"05/02/2020", "x", "1", "2", "3", "4", "5", "3", "4">> }

SeqsUpTo(S, n) == UNION {[1..k -> S] : k \in 0..n}

\* the workbooks: with a header and data rows, or with no header row
LotoSheets ==
    {<<LotoTitle, LotoHeader>> \o data : data \in SeqsUpTo(LotoDataRows, MaxRows)}
        \cup {<<LotoTitle>>}

EuroTexts ==
    {[header |-> EuroHeader, lines |-> data] :
        data \in SeqsUpTo(EuroDataLines, MaxRows)}

\* the data rows of a workbook
DataRowCount(sheet) == IF Len(sheet) < 2 THEN 0 ELSE Len(sheet) - 2

Sources ==
    {s \in [loto : LotoSheets, euromillions : EuroTexts] :
        DataRowCount(s.loto) + Len(s.euromillions.lines) <= MaxRows}

(***************************************************************************)
(* The parsing of the documents, tabulated once over the documents above   *)
(* (the functions are pure): each run applies _prepare_lotto_rows to the   *)
(* workbook it downloaded, LotoCanon to each row the generator yields,     *)
(* and _prepare_reader and EuroCanon to each line.                         *)
(***************************************************************************)
PreparedLotoRows == [sheet \in LotoSheets |-> _prepare_lotto_rows(sheet)]

LotoCanonOfRow ==
    [row \in UNION {Range(PreparedLotoRows[sheet].rows) : sheet \in LotoSheets}
        |-> LotoCanon(row)]

ReaderRowOfLine == [line \in EuroDataLines |-> _prepare_reader(EuroHeader, line)]

EuroCanonOfLine == [line \in EuroDataLines |-> EuroCanon(ReaderRowOfLine[line].row)]

(***************************************************************************)
(* State.                                                                  *)
(***************************************************************************)
VARIABLES
    src,        \* the documents published at LOTTO_URL and EUROMILLIONS_URL
    db,         \* the committed rows of loto_draws and euromillions_draws
    pending,    \* the rows the session has flushed and not committed
    pc,         \* the position of the update: idle, loto_download, loto_rows,
                \* euro_download, euro_rows, returned, raised
    reader,     \* the rows the current run has still to read
    inserted,   \* the counter of the current run
    results,    \* the dict update_all_draws builds
    error,      \* the exception that ended the last call, "" for none
    failed,     \* the game whose run raised it
    calls,      \* calls of update_all_draws so far
    runs,       \* per game, the runs that completed
    snap,       \* the committed rows when the call and the current run began
    last,       \* what the last row step did
    pin,        \* the arguments of a call of a prediction helper
    pout,       \* the list it returned
    ppc         \* "off", or "ready" before and "done" after that call

ivars == <<src, db, pending, pc, reader, inserted, results, error, failed,
           calls, runs, snap, last>>

pvars == <<pin, pout, ppc>>

vars == <<ivars, pvars>>

Games == {"loto", "euromillions"}

NoRows == [g \in Games |-> {}]

NoCall == [draws |-> <<>>, total_numbers |-> 0, picks |-> 0]

NoStep == [game |-> "", kind |-> "none", len |-> 0, differs |-> FALSE]

Init ==
    /\ src \in Sources
    /\ db = NoRows
    /\ pending = NoRows
    /\ pc = "idle"
    /\ reader = <<>>
    /\ inserted = 0
    /\ results = [g \in Games |-> 0]
    /\ error = ""
    /\ failed = ""
    /\ calls = 0
    /\ runs = [g \in Games |-> 0]
    /\ snap = [call |-> NoRows, run |-> NoRows]
    /\ last = NoStep
    /\ pin = NoCall
    /\ pout = <<>>
    /\ ppc = "off"


(***************************************************************************)
(* The session (database.py: sessionmaker with the default autoflush).     *)
(***************************************************************************)
\* a session with autoflush off: a query sees the committed rows only
SessionQueryCommitted(g) == db[g]

\* the rows a query of the session sees: the committed rows and, flushed
\* before the SELECT runs, the rows added in the open transaction
SessionQuery(g) == db[g] \cup pending[g]

\* session.commit(): the open transaction's rows of every table
Commit == [g \in Games |-> db[g] \cup pending[g]]

\* uq_loto_draw / uq_euromillions_draw: SQLite rejects an INSERT repeating
\* a (draw_date, draw_number) whose draw_number is not NULL
UniqueViolated(table, c) ==
    c.draw_number.tag = "int" /\ Matching(table, c) # {}

NewDraw(g, c) ==
    IF g = "loto" THEN LotoDraw(db[g] \cup pending[g], c)
    ELSE EuroMillionsDraw(db[g] \cup pending[g], c)

\* the stored numbers of a row differ from those of the canonical record
Differs(g, r, c) ==
    IF g = "loto"
    THEN r.main_numbers # JoinNumbers(c.numbers) \/ r.chance_number # c.extra[1]
    ELSE r.main_numbers # JoinNumbers(c.numbers)
         \/ r.star_numbers # JoinNumbers(c.extra)

Raise(kind, g) ==
    /\ pc' = "raised"
    /\ error' = kind
    /\ failed' = g
    /\ UNCHANGED <<src, db, pending, reader, inserted, results, calls, runs, snap>>

\* an upsert that overwrites the numbers of the record found and counts it
UpdateExisting(g, c, existing) ==
    LET Updated(table) ==
            {IF r \in existing
             THEN [r EXCEPT !.main_numbers = JoinNumbers(c.numbers)]
             ELSE r : r \in table}
    IN /\ db' = [db EXCEPT ![g] = Updated(@)]
       /\ pending' = [pending EXCEPT ![g] = Updated(@)]
       /\ inserted' = inserted + 1

\* if existing: continue
OnExisting(g, c, existing) == UNCHANGED <<db, pending, inserted>>

\* one pass of the row loop of game g on the canonicalised row c: from the
\* cardinality checks to session.add and inserted += 1
RowStep(g, c) ==
    LET existing == Matching(SessionQuery(g), c)
    IN CASE c.kind = "raise" ->
              /\ Raise("FetchError", g)
              /\ last' = [game |-> g, kind |-> "raise", len |-> 0, differs |-> FALSE]
         [] c.kind = "skip" ->
              /\ reader' = Tail(reader)
              /\ last' = [game |-> g, kind |-> "skip", len |-> Len(c.numbers),
                          differs |-> FALSE]
              /\ UNCHANGED <<src, db, pending, pc, inserted, results, error,
                             failed, calls, runs, snap>>
         [] c.kind = "ok" /\ Cardinality(existing) > 1 ->
              \* scalar_one_or_none: MultipleResultsFound
              /\ Raise("Exception", g)
              /\ last' = [game |-> g, kind |-> "raise", len |-> 5, differs |-> FALSE]
         [] c.kind = "ok" /\ Cardinality(existing) = 1 ->
              /\ OnExisting(g, c, existing)
              /\ reader' = Tail(reader)
              /\ last' = [game |-> g, kind |-> "existing", len |-> 5,
                          differs |-> \E r \in existing : Differs(g, r, c)]
              /\ UNCHANGED <<src, pc, results, error, failed, calls, runs, snap>>
         [] c.kind = "ok" /\ existing = {}
                /\ UniqueViolated(db[g] \cup pending[g], c) ->
              \* IntegrityError of the flush
              /\ Raise("Exception", g)
              /\ last' = [game |-> g, kind |-> "raise", len |-> 5, differs |-> FALSE]
         [] OTHER ->
              /\ pending' = [pending EXCEPT ![g] = @ \cup {NewDraw(g, c)}]
              /\ inserted' = inserted + 1
              /\ reader' = Tail(reader)
              /\ last' = [game |-> g, kind |-> "add", len |-> 5, differs |-> FALSE]
              /\ UNCHANGED <<src, db, pc, results, error, failed, calls, runs, snap>>

\* the end of a run that returns without committing
FinishWithoutCommit(g, next) ==
    /\ results' = [results EXCEPT ![g] = inserted]
    /\ runs' = [runs EXCEPT ![g] = @ + 1]
    /\ pc' = next
    /\ snap' = [snap EXCEPT !.run = db]
    /\ UNCHANGED <<src, db, pending, reader, inserted, error, failed, calls, last>>

\* the end of a run: if inserted: session.commit(); return inserted
Finish(g, next) ==
    /\ db' = IF inserted > 0 THEN Commit ELSE db
    /\ pending' = IF inserted > 0 THEN NoRows ELSE pending
    /\ results' = [results EXCEPT ![g] = inserted]
    /\ runs' = [runs EXCEPT ![g] = @ + 1]
    /\ pc' = next
    /\ snap' = [snap EXCEPT !.run = db']
    /\ UNCHANGED <<src, reader, inserted, error, failed, calls, last>>

(***************************************************************************)
(* Actions.                                                                *)
(***************************************************************************)
\* routes.update_data or scripts/update_data.main: get_session() and the
\* call of update_all_draws
StartUpdate ==
    /\ pc = "idle"
    /\ UNCHANGED pvars
    /\ calls < MaxCalls
    /\ calls' = calls + 1
    /\ pc' = "loto_download"
    /\ results' = [g \in Games |-> 0]
    /\ error' = ""
    /\ failed' = ""
    /\ snap' = [call |-> db, run |-> db]
    /\ last' = NoStep
    /\ UNCHANGED <<src, db, pending, reader, inserted, runs>>

\* _download_binary raises (timeout, transport error, HTTP status)
LotoDownloadFails ==
    /\ pc = "loto_download"
    /\ UNCHANGED pvars
    /\ Raise("RequestException", "loto")
    /\ UNCHANGED last

\* _download_binary returns and _prepare_lotto_rows finds the header or not
LotoDownload ==
    /\ pc = "loto_download"
    /\ UNCHANGED pvars
    /\ LET prepared == PreparedLotoRows[src.loto]
       IN IF prepared.found
          THEN /\ reader' = prepared.rows
               /\ inserted' = 0
               /\ pc' = "loto_rows"
               /\ UNCHANGED <<src, db, pending, results, error, failed, calls,
                              runs, snap>>
          ELSE Raise("FetchError", "loto")
    /\ UNCHANGED last

LotoRow ==
    /\ pc = "loto_rows"
    /\ UNCHANGED pvars
    /\ reader # <<>>
    /\ RowStep("loto", LotoCanonOfRow[Head(reader)])

LotoFinish ==
    /\ pc = "loto_rows"
    /\ UNCHANGED pvars
    /\ reader = <<>>
    /\ Finish("loto", "euro_download")

\* _download_csv raises
EuroDownloadFails ==
    /\ pc = "euro_download"
    /\ UNCHANGED pvars
    /\ Raise("RequestException", "euromillions")
    /\ UNCHANGED last

EuroDownload ==
    /\ pc = "euro_download"
    /\ UNCHANGED pvars
    /\ reader' = src.euromillions.lines
    /\ inserted' = 0
    /\ pc' = "euro_rows"
    /\ UNCHANGED <<src, db, pending, results, error, failed, calls, runs, snap,
                   last>>

EuroRow ==
    /\ pc = "euro_rows"
    /\ UNCHANGED pvars
    /\ reader # <<>>
    /\ LET read == ReaderRowOfLine[Head(reader)]
       IN IF read.err
          THEN /\ Raise("Exception", "euromillions")
               /\ last' = [game |-> "euromillions", kind |-> "raise", len |-> 0,
                           differs |-> FALSE]
          ELSE RowStep("euromillions", EuroCanonOfLine[Head(reader)])

EuroFinish ==
    /\ pc = "euro_rows"
    /\ UNCHANGED pvars
    /\ reader = <<>>
    /\ Finish("euromillions", "returned")

\* update_all_draws returned: the caller reports the counts and closes the
\* session, which ends the open transaction
Return ==
    /\ pc = "returned"
    /\ UNCHANGED pvars
    /\ pc' = "idle"
    /\ pending' = NoRows
    /\ UNCHANGED <<src, db, reader, inserted, results, error, failed, calls,
                   runs, snap, last>>

\* a handler that commits where the route rolls back
RouteHandlesErrorCommitting ==
    /\ pc = "raised"
    /\ UNCHANGED pvars
    /\ pc' = "idle"
    /\ db' = Commit
    /\ pending' = NoRows
    /\ UNCHANGED <<src, reader, inserted, results, error, failed, calls,
                   runs, snap, last>>

\* routes.update_data: except FetchError / except Exception:
\* session.rollback(), then session.close()
RouteHandlesError ==
    /\ pc = "raised"
    /\ UNCHANGED pvars
    /\ pc' = "idle"
    /\ pending' = NoRows
    /\ UNCHANGED <<src, db, reader, inserted, results, error, failed, calls,
                   runs, snap, last>>

\* scripts/update_data.main: session.close() in the finally clause, then
\* SystemExit (FetchError) or the propagating exception
ScriptHandlesError ==
    /\ pc = "raised"
    /\ UNCHANGED pvars
    /\ pc' = "idle"
    /\ pending' = NoRows
    /\ UNCHANGED <<src, db, reader, inserted, results, error, failed, calls,
                   runs, snap, last>>

Next ==
    \/ StartUpdate
    \/ LotoDownloadFails
    \/ LotoDownload
    \/ LotoRow
    \/ LotoFinish
    \/ EuroDownloadFails
    \/ EuroDownload
    \/ EuroRow
    \/ EuroFinish
    \/ Return
    \/ RouteHandlesError
    \/ ScriptHandlesError

Spec == Init /\ [][Next]_vars



(***************************************************************************)
(* The prediction helpers (predictions.py).  A Counter is a dict in        *)
(* insertion order: a sequence of <<number, count>>.                       *)
(***************************************************************************)
\* numbers drawn in the histories handed to the helpers
MaxNum == 6
\* draws of a history
MaxHist == 2
\* total_numbers of the calls of the helpers on small ranges
MaxTotal == 7

CounterAdd(counter, elem) ==
    IF \E i \in 1..Len(counter) : counter[i][1] = elem
    THEN [i \in 1..Len(counter) |->
            IF counter[i][1] = elem THEN <<elem, counter[i][2] + 1>> ELSE counter[i]]
    ELSE Append(counter, <<elem, 1>>)

RECURSIVE CounterUpdate(_, _, _)
\* counter.update(iterable), from position i of the iterable on; the test
\* on Len(counter), never true, has the counter evaluated at each element
\* and not as one nested expression at the end of a long iterable
CounterUpdate(counter, iterable, i) ==
    IF i > Len(iterable) \/ Len(counter) < 0 THEN counter
    ELSE CounterUpdate(CounterAdd(counter, iterable[i]), iterable, i + 1)

\* Counter(iterable)
Counter(iterable) == CounterUpdate(<<>>, iterable, 1)

RECURSIVE CounterFromDraws(_, _, _)
CounterFromDraws(counter, draws, i) ==
    IF i > Len(draws) THEN counter
    ELSE CounterFromDraws(CounterUpdate(counter, draws[i], 1), draws, i + 1)

_counter_from_draws(draws) == CounterFromDraws(<<>>, draws, 1)

RECURSIVE InsertByCount(_, _)
\* sorted(..., key=count, reverse=True) keeps the order of equal counts
InsertByCount(sorted, item) ==
    IF Len(sorted) = 0 THEN <<item>>
    ELSE IF sorted[Len(sorted)][2] >= item[2] THEN Append(sorted, item)
    ELSE Append(InsertByCount(SubSeq(sorted, 1, Len(sorted) - 1), item),
                sorted[Len(sorted)])

RECURSIVE InsertByCountThenValue(_, _)
InsertByCountThenValue(sorted, item) ==
    IF Len(sorted) = 0 THEN <<item>>
    ELSE IF \/ sorted[Len(sorted)][2] > item[2]
            \/ sorted[Len(sorted)][2] = item[2] /\ sorted[Len(sorted)][1] < item[1]
         THEN Append(sorted, item)
         ELSE Append(InsertByCountThenValue(SubSeq(sorted, 1, Len(sorted) - 1), item),
                     sorted[Len(sorted)])

RECURSIVE MostCommonByValue(_, _)
MostCommonByValue(counter, n) ==
    IF n = 0 THEN <<>>
    ELSE InsertByCountThenValue(MostCommonByValue(counter, n - 1), counter[n])

\* a ranking by descending count, equal counts by ascending number
most_common_by_value(counter) == MostCommonByValue(counter, Len(counter))

RECURSIVE MostCommonFrom(_, _)
MostCommonFrom(counter, n) ==
    IF n = 0 THEN <<>>
    ELSE InsertByCount(MostCommonFrom(counter, n - 1), counter[n])

\* counter.most_common(): descending count, equal counts in the order in
\* which the numbers entered the counter
most_common(counter) == MostCommonFrom(counter, Len(counter))

\* [num for num, _ in counter.most_common()]
Ordered(ranked) == [i \in 1..Len(ranked) |-> ranked[i][1]]

\* [n for n in range(1, total_numbers + 1) if n not in ordered]
Remaining(seen, total_numbers) ==
    SelectSeq([n \in 1..total_numbers |-> n], LAMBDA n : n \notin seen)

\* sorted(combined[:picks])
SortedHead(combined, picks) ==
    SortedSeqOf(Range(SubSeq(combined, 1, IF picks < Len(combined) THEN picks
                                          ELSE Len(combined))))

CombineAndCut(ordered, total_numbers, picks) ==
    SortedHead(ordered \o Remaining(Range(ordered), total_numbers), picks)

_select_top_numbers(counter, total_numbers, picks) ==
    CombineAndCut(Ordered(most_common(counter)), total_numbers, picks)

\* a pool that keeps the numbers of the recent draw
FullRangePool(recent_draw, total_numbers, picks) == 1..total_numbers

\* the pool _select_avoiding_recent samples from (lines 37-39)
AvoidPool(recent_draw, total_numbers, picks) ==
    LET pool == {n \in 1..total_numbers : n \notin Range(recent_draw)}
    IN IF Cardinality(pool) < picks THEN 1..total_numbers ELSE pool

\* random.sample(pool, k=picks) returns any picks distinct members of the
\* pool; _select_avoiding_recent returns them sorted
_select_avoiding_recent(recent_draw, total_numbers, picks) ==
    {SortedSeqOf(chosen) :
        chosen \in {c \in SUBSET AvoidPool(recent_draw, total_numbers, picks) :
                        Cardinality(c) = picks}}

(***************************************************************************)
(* Calls of the helpers.  A history is a list of draws, the most recent    *)
(* first; a draw is the ascending list numbers_list / star_numbers_list    *)
(* gives, or the one chance number.                                        *)
(***************************************************************************)
DrawsOf(count) ==
    {SortedSeqOf(d) : d \in {c \in SUBSET (1..MaxNum) : Cardinality(c) = count}}

\* the histories the generators pass on: they return early on an empty one
Histories(count) == SeqsUpTo(DrawsOf(count), MaxHist) \ {<<>>}

Call(site, draws, total_numbers, picks) ==
    [site |-> site, draws |-> draws, total_numbers |-> total_numbers,
     picks |-> picks]

\* the calls of _select_top_numbers in generate_loto_predictions and
\* generate_euromillions_predictions, and calls on small ranges with
\* histories of one-number draws, the empty one included
TopCalls ==
    {Call("loto_main", h, 49, 5) : h \in Histories(5)}
        \cup {Call("loto_chance", h, 10, 1) : h \in Histories(1)}
        \cup {Call("euro_main", h, 50, 5) : h \in Histories(5)}
        \cup {Call("euro_stars", h, 12, 2) : h \in Histories(2)}
        \cup {c \in {Call("direct", h, t, k) :
                        h \in SeqsUpTo(DrawsOf(1), MaxHist),
                        t \in 1..MaxTotal, k \in 1..MaxTotal} :
                c.picks <= c.total_numbers}

\* the calls of _select_avoiding_recent on the chance number and the stars
\* of the last draw, and calls on small ranges
AvoidCalls ==
    {Call("loto_chance", <<d>>, 10, 1) : d \in DrawsOf(1)}
        \cup {Call("euro_stars", <<d>>, 12, 2) : d \in DrawsOf(2)}
        \cup {c \in {Call("direct", <<d>>, t, k) :
                        d \in DrawsOf(1) \cup DrawsOf(2) \cup DrawsOf(5),
                        t \in 1..MaxTotal, k \in 1..MaxTotal} :
                c.picks <= c.total_numbers}

IngestionIdle ==
    /\ src = [loto |-> <<LotoTitle, LotoHeader>>,
              euromillions |-> [header |-> EuroHeader, lines |-> <<>>]]
    /\ db = NoRows
    /\ pending = NoRows
    /\ pc = "idle"
    /\ reader = <<>>
    /\ inserted = 0
    /\ results = [g \in Games |-> 0]
    /\ error = ""
    /\ failed = ""
    /\ calls = 0
    /\ runs = [g \in Games |-> 0]
    /\ snap = [call |-> NoRows, run |-> NoRows]
    /\ last = NoStep

\* the chance numbers of a history of one-number draws
ChanceNumbers(draws) == [i \in 1..Len(draws) |-> draws[i][1]]

\* the counter the call site builds: Counter(chance_numbers) for the Loto
\* chance number, _counter_from_draws for the others
CounterOfCall(call) ==
    IF call.site = "loto_chance" THEN Counter(ChanceNumbers(call.draws))
    ELSE _counter_from_draws(call.draws)

InitTop ==
    /\ IngestionIdle
    /\ pin \in TopCalls
    /\ pout = <<>>
    /\ ppc = "ready"

SelectTop ==
    /\ ppc = "ready"
    /\ pout' = _select_top_numbers(CounterOfCall(pin), pin.total_numbers, pin.picks)
    /\ ppc' = "done"
    /\ UNCHANGED <<pin, ivars>>

SpecTop == InitTop /\ [][SelectTop]_vars

InitAvoid ==
    /\ IngestionIdle
    /\ pin \in AvoidCalls
    /\ pout = <<>>
    /\ ppc = "ready"

SelectAvoiding ==
    /\ ppc = "ready"
    /\ pout' \in _select_avoiding_recent(pin.draws[1], pin.total_numbers, pin.picks)
    /\ ppc' = "done"
    /\ UNCHANGED <<pin, ivars>>

SpecAvoid == InitAvoid /\ [][SelectAvoiding]_vars

(***************************************************************************)
(* The prediction entry points generate_loto_predictions and               *)
(* generate_euromillions_predictions, run on a stored history.  pin holds  *)
(* the game and the draws the query returned, pout the list `predictions`, *)
(* ppc the position: ready, frequency, recent, avoid, returned.            *)
(***************************************************************************)
\* of the samples random.sample can return, the ones enumerated draw from
\* the picks + MaxSpare smallest numbers of the pool
MaxSpare == 2

\* main_draws[:30]
RecentWindow == 30

RECURSIVE StoreRows(_, _, _, _)
\* the table a completed run leaves from the canonical rows of a document
StoreRows(g, table, canons, i) ==
    IF i > Len(canons) THEN table
    ELSE IF canons[i].kind = "ok" /\ Matching(table, canons[i]) = {}
         THEN StoreRows(g,
                        table \cup {IF g = "loto" THEN LotoDraw(table, canons[i])
                                    ELSE EuroMillionsDraw(table, canons[i])},
                        canons, i + 1)
         ELSE StoreRows(g, table, canons, i + 1)

\* a history longer than the recent window: one draw a day, the oldest one
\* with other numbers
LongStore(g) ==
    {IF g = "loto"
     THEN [id |-> i, draw_date |-> [y |-> 2020, m |-> 1, d |-> i],
           draw_number |-> IntVal(i),
           main_numbers |-> IF i = 1 THEN "6,7,8,9,10" ELSE "1,2,3,4,5",
           chance_number |-> IF i = 1 THEN 2 ELSE 1]
     ELSE [id |-> i, draw_date |-> [y |-> 2020, m |-> 1, d |-> i],
           draw_number |-> IntVal(i),
           main_numbers |-> IF i = 1 THEN "6,7,8,9,10" ELSE "1,2,3,4,5",
           star_numbers |-> IF i = 1 THEN "3,4" ELSE "1,2"]
     : i \in 1..(RecentWindow + 1)}

\* two draws of one date, told apart by their draw number
SameDayStore(g) ==
    {IF g = "loto"
     THEN [id |-> i, draw_date |-> [y |-> 2020, m |-> 2, d |-> 1],
           draw_number |-> IntVal(i),
           main_numbers |-> IF i = 1 THEN "1,2,3,4,5" ELSE "2,3,4,5,6",
           chance_number |-> i]
     ELSE [id |-> i, draw_date |-> [y |-> 2020, m |-> 2, d |-> 1],
           draw_number |-> IntVal(i),
           main_numbers |-> IF i = 1 THEN "1,2,3,4,5" ELSE "2,3,4,5,6",
           star_numbers |-> IF i = 1 THEN "1,2" ELSE "2,3"]
     : i \in 1..2}

\* the canonical rows of a workbook, of a text
CanonsOf(g, doc) ==
    IF g = "loto"
    THEN LET rows == PreparedLotoRows[doc].rows
         IN [i \in 1..Len(rows) |-> LotoCanonOfRow[rows[i]]]
    ELSE [i \in 1..Len(doc.lines) |-> EuroCanonOfLine[doc.lines[i]]]

\* the table a run on an empty store leaves: nothing when a row raises
StoreAfterRun(g, canons) ==
    IF \E i \in 1..Len(canons) : canons[i].kind = "raise" THEN {}
    ELSE StoreRows(g, {}, canons, 1)

\* the tables the prediction entry points are run on: those a run leaves
\* from a document of the catalogue, and the two above
Stores(g) ==
    {StoreAfterRun(g, CanonsOf(g, doc)) :
        doc \in IF g = "loto" THEN LotoSheets ELSE EuroTexts}
        \cup {LongStore(g), SameDayStore(g)}

DateKey(date) == date.y * 10000 + date.m * 100 + date.d

RECURSIVE OrderByDateDesc(_)
\* select(...).order_by(draw_date.desc()): the rows by descending date, rows
\* of one date in any order
OrderByDateDesc(table) ==
    IF table = {} THEN {<<>>}
    ELSE UNION {{<<r>> \o rest : rest \in OrderByDateDesc(table \ {r})} :
                  r \in {r \in table :
                           \A q \in table : DateKey(q.draw_date) <= DateKey(r.draw_date)}}

\* total_numbers of the main numbers of the game
MainRange(g) == IF g = "loto" THEN 49 ELSE 50

\* total_numbers of the chance number, of the stars
ExtraRange(g) == IF g = "loto" THEN 10 ELSE 12

\* the Loto picks used for both games
ExtraPicksOfLoto(g) == 1

\* picks of the chance number, of the stars
ExtraPicks(g) == IF g = "loto" THEN 1 ELSE 2

\* main_draws
MainDraws(draws) == [i \in 1..Len(draws) |-> numbers_list(draws[i])]

\* chance_numbers as one-number draws, star_draws
ExtraDraws(g, draws) ==
    [i \in 1..Len(draws) |->
        IF g = "loto" THEN <<draws[i].chance_number>>
        ELSE star_numbers_list(draws[i])]

\* Counter(chance_numbers) for Loto, _counter_from_draws(star_draws)
ExtraCounter(g, extra_draws) ==
    IF g = "loto" THEN Counter(ChanceNumbers(extra_draws))
    ELSE _counter_from_draws(extra_draws)

\* draws[:30]
RecentOf(draws) ==
    SubSeq(draws, 1, IF Len(draws) < RecentWindow THEN Len(draws) ELSE RecentWindow)

Prediction(method, main_numbers, extra_numbers) ==
    [method |-> method, main_numbers |-> main_numbers,
     extra_numbers |-> extra_numbers]

\* the prediction of the two counting methods on the draws given
TopPrediction(method, g, main_draws, extra_draws) ==
    Prediction(method,
               _select_top_numbers(_counter_from_draws(main_draws), MainRange(g), 5),
               _select_top_numbers(ExtraCounter(g, extra_draws), ExtraRange(g),
                                   ExtraPicks(g)))

\* the n smallest members of a set of numbers
LeastOf(S, n) ==
    LET sorted == SortedSeqOf(S)
    IN {sorted[i] : i \in 1..(IF n < Len(sorted) THEN n ELSE Len(sorted))}

\* the lists _select_avoiding_recent can return, the sample drawn from the
\* picks + MaxSpare smallest numbers of the pool
SampledAvoiding(recent_draw, total_numbers, picks) ==
    {SortedSeqOf(chosen) :
        chosen \in {c \in SUBSET LeastOf(AvoidPool(recent_draw, total_numbers, picks),
                                         picks + MaxSpare) :
                        Cardinality(c) = picks}}

InitGen ==
    /\ src = [loto |-> <<LotoTitle, LotoHeader>>,
              euromillions |-> [header |-> EuroHeader, lines |-> <<>>]]
    /\ db \in {[loto |-> loto, euromillions |-> euromillions] :
                  loto \in Stores("loto"),
                  euromillions \in Stores("euromillions")}
    /\ pending = NoRows
    /\ pc = "idle"
    /\ reader = <<>>
    /\ inserted = 0
    /\ results = [g \in Games |-> 0]
    /\ error = ""
    /\ failed = ""
    /\ calls = 0
    /\ runs = [g \in Games |-> 0]
    /\ snap = [call |-> NoRows, run |-> NoRows]
    /\ last = NoStep
    /\ pin = [game |-> "", draws |-> <<>>]
    /\ pout = <<>>
    /\ ppc = "ready"

\* the query and the early return
GenQuery ==
    /\ ppc = "ready"
    /\ \E g \in Games :
         \E draws \in OrderByDateDesc(db[g]) :
            /\ pin' = [game |-> g, draws |-> draws]
            /\ pout' = <<>>
            /\ ppc' = IF draws = <<>> THEN "returned" ELSE "frequency"
    /\ UNCHANGED ivars

\* Method 1: overall frequency
GenFrequency ==
    /\ ppc = "frequency"
    /\ pout' = Append(pout,
                      TopPrediction("Fréquence historique", pin.game,
                                    MainDraws(pin.draws),
                                    ExtraDraws(pin.game, pin.draws)))
    /\ ppc' = "recent"
    /\ UNCHANGED <<pin, ivars>>

\* Method 2: recent trend
GenRecent ==
    /\ ppc = "recent"
    /\ pout' = Append(pout,
                      TopPrediction("Tendance récente", pin.game,
                                    RecentOf(MainDraws(pin.draws)),
                                    RecentOf(ExtraDraws(pin.game, pin.draws))))
    /\ ppc' = "avoid"
    /\ UNCHANGED <<pin, ivars>>

\* Method 3: avoid the last draw; return predictions
GenAvoid ==
    /\ ppc = "avoid"
    /\ \E main_numbers \in
            SampledAvoiding(MainDraws(pin.draws)[1], MainRange(pin.game), 5) :
         \E extra_numbers \in
              SampledAvoiding(ExtraDraws(pin.game, pin.draws)[1],
                              ExtraRange(pin.game), ExtraPicks(pin.game)) :
            pout' = Append(pout,
                           Prediction("Évitement du dernier tirage",
                                      main_numbers, extra_numbers))
    /\ ppc' = "returned"
    /\ UNCHANGED <<pin, ivars>>

NextGen == GenQuery \/ GenFrequency \/ GenRecent \/ GenAvoid

SpecGen == InitGen /\ [][NextGen]_vars

(***************************************************************************)
(* Properties of the ingestion.                                            *)
(***************************************************************************)
RowsPc(g) == IF g = "loto" THEN "loto_rows" ELSE "euro_rows"

\* the dict of the row the run of game g is about to process
CurrentRow(g) ==
    IF g = "loto" THEN Head(reader) ELSE ReaderRowOfLine[Head(reader)].row

\* its canonical form
CurrentCanon(g) ==
    IF g = "loto" THEN LotoCanonOfRow[Head(reader)]
    ELSE EuroCanonOfLine[Head(reader)]

SameKey(r1, r2) ==
    r1.draw_date = r2.draw_date /\ r1.draw_number = r2.draw_number

\* C1: the source documents never change in a behaviour, so every run of a
\* game after its first completed run reads identical content: such a run
\* adds no record to the session, and the count it returns is 0.
C1_SecondRunInsertsNothing ==
    \A g \in Games :
        /\ runs[g] >= 1 => pending[g] = {}
        /\ (runs[g] >= 1 /\ pc = RowsPc(g)) => inserted = 0
        /\ runs[g] >= 2 => results[g] = 0

\* both games ran twice to the end and the first runs stored records
C1_Witness ==
    /\ pc = "returned"
    /\ \A g \in Games : runs[g] >= 2 /\ db[g] # {}

\* C2: no two records of a game, committed or added by the running
\* transaction, have the same (draw_date, draw_number); two absent draw
\* numbers count as equal.
C2_UniqueKey ==
    \A g \in Games :
        \A r1, r2 \in db[g] \cup pending[g] : SameKey(r1, r2) => r1 = r2

\* a row of a date with no draw index was skipped because the first row of
\* that key, added by the same run and not yet committed, was found
C2_Witness ==
    /\ pc = "loto_rows"
    /\ last.kind = "existing"
    /\ db["loto"] = {}
    /\ pending["loto"] # {}
    /\ \A r \in pending["loto"] : r.draw_number = NoneVal

\* C3: every record of the store or the running transaction has five
\* strictly ascending main numbers, and one chance number (Loto) or two
\* strictly ascending star numbers (EuroMillions).
C3_CanonicalRecords ==
    /\ \A r \in db["loto"] \cup pending["loto"] :
          /\ Len(numbers_list(r)) = 5
          /\ StrictlyAscending(numbers_list(r))
          /\ r.chance_number \in Int
    /\ \A r \in db["euromillions"] \cup pending["euromillions"] :
          /\ Len(numbers_list(r)) = 5
          /\ StrictlyAscending(numbers_list(r))
          /\ Len(star_numbers_list(r)) = 2
          /\ StrictlyAscending(star_numbers_list(r))

\* records stored from rows whose numbers and stars were out of order
C3_Witness ==
    /\ \E r \in db["loto"] :
          r.draw_number = IntVal(1) /\ r.main_numbers = "1,2,3,4,5"
    /\ \E r \in db["euromillions"] :
          r.main_numbers = "1,2,3,4,5" /\ r.star_numbers = "1,2"

\* C4: a step never removes or changes a committed record, and a row whose
\* cells parse and whose key is that of a committed record is passed over:
\* nothing is added, the counter stays, no exception is raised.
C4_AppendOnly ==
    [][ /\ \A g \in Games : db[g] \subseteq db'[g]
        /\ \A g \in Games :
              ( /\ pc = RowsPc(g)
                /\ reader # <<>>
                /\ CurrentCanon(g).kind # "raise"
                /\ \E r \in db[g] : SameKey(r, CurrentCanon(g)) )
              => /\ pending' = pending
                 /\ inserted' = inserted
                 /\ db' = db
                 /\ pc' = pc
                 /\ reader' = Tail(reader) ]_vars

\* a second call passed over a row whose key is committed and whose numbers
\* differ from the committed ones
C4_Witness ==
    /\ calls = 2
    /\ pc \in {"loto_rows", "euro_rows"}
    /\ last.kind = "existing"
    /\ last.differs
    /\ pending = NoRows
    /\ inserted = 0

\* C5: after any exception of a run the committed rows of the failed game
\* are those of the start of that run, and once the caller has handled it
\* the session holds no uncommitted row.
C5_RollbackOnError ==
    /\ pc = "idle" => pending = NoRows
    /\ error # "" => db[failed] = snap.run[failed]

\* a Loto run that had added rows met a row with no date; the caller has
\* handled the FetchError
C5_Witness ==
    /\ pc = "idle"
    /\ error = "FetchError"
    /\ failed = "loto"
    /\ last.kind = "raise"
    /\ inserted > 0
    /\ ~_parse_date(Head(reader)).ok

\* C6, as stated: after a download error nothing of the call is committed,
\* the stored history of both games is that of the start of the call.
C6_NothingOfTheCallCommitted ==
    error = "RequestException" => db = snap.call

\* C6, amended: after a download error the game whose download failed has
\* its stored history unchanged since the start of the call; when it is the
\* EuroMillions download that failed, the Loto history is the one of the
\* start of the call plus the records the completed Loto run had committed.
C6_FailedGameUnchanged ==
    error = "RequestException" =>
        /\ db[failed] = snap.call[failed]
        /\ failed = "loto" => db = snap.call
        /\ failed = "euromillions" =>
              /\ snap.call["loto"] \subseteq db["loto"]
              /\ Cardinality(db["loto"]) =
                    Cardinality(snap.call["loto"]) + results["loto"]

\* the EuroMillions download failed after a Loto run that inserted records
C6_Witness ==
    /\ pc = "idle"
    /\ error = "RequestException"
    /\ failed = "euromillions"
    /\ results["loto"] > 0

\* C7, as stated: a row step raises only for a missing or unparseable date;
\* a non-numeric number or draw-index cell does not abort the run.
C7_OnlyDateAborts ==
    \A g \in Games :
        (pc = "raised" /\ last.kind = "raise" /\ last.game = g /\ error = "FetchError")
            => ~_parse_date(CurrentRow(g)).ok

\* C8: a row whose cells parse and whose distinct main numbers are not five
\* is passed over (no exception, nothing stored, counter unchanged); a valid
\* row whose key is not yet in the store or the transaction is added and
\* counted; and the run returns the counter, committing the added rows.
C8_SkipAndGoOn ==
    [][ \A g \in Games :
          /\ (pc = RowsPc(g) /\ reader # <<>>) =>
                /\ ( /\ CurrentCanon(g).kind # "raise"
                     /\ Cardinality(Range(CurrentCanon(g).numbers)) # 5 )
                   => /\ pc' = pc
                      /\ db' = db
                      /\ pending' = pending
                      /\ inserted' = inserted
                      /\ reader' = Tail(reader)
                /\ ( /\ CurrentCanon(g).kind = "ok"
                     /\ \A r \in db[g] \cup pending[g] : ~SameKey(r, CurrentCanon(g)) )
                   => /\ pc' = pc
                      /\ inserted' = inserted + 1
                      /\ pending[g] \subseteq pending'[g]
                      /\ Cardinality(pending'[g]) = Cardinality(pending[g]) + 1
                      /\ reader' = Tail(reader)
          /\ (pc = RowsPc(g) /\ reader = <<>>) =>
                /\ results'[g] = inserted
                /\ inserted = Cardinality(pending[g])
                /\ db'[g] = db[g] \cup pending[g] ]_vars

\* a Loto run of two rows, the first with six main numbers, the second
\* valid, returned 1
C8_Witness ==
    /\ pc = "euro_download"
    /\ calls = 1
    /\ results["loto"] = 1
    /\ Cardinality(db["loto"]) = 1
    /\ LET rows == PreparedLotoRows[src.loto].rows
       IN /\ Len(rows) = 2
          /\ LotoCanonOfRow[rows[1]].kind = "skip"
          /\ Len(LotoCanonOfRow[rows[1]].numbers) = 6
          /\ LotoCanonOfRow[rows[2]].kind = "ok"


(***************************************************************************)
(* Properties of the prediction helpers.                                   *)
(***************************************************************************)
RECURSIVE Flatten(_, _)
Flatten(draws, i) ==
    IF i > Len(draws) THEN <<>> ELSE draws[i] \o Flatten(draws, i + 1)

\* the numbers of the history of the call, in the order in which it is read
Stream == Flatten(pin.draws, 1)

\* how often n occurs in the history
Occurrences(stream, n) == Cardinality({i \in 1..Len(stream) : stream[i] = n})

\* where n first occurs in the history as read; an unobserved number is
\* placed after the history, by its value
FirstSeen(stream, n) ==
    IF \E i \in 1..Len(stream) : stream[i] = n
    THEN CHOOSE i \in 1..Len(stream) :
            stream[i] = n /\ \A j \in 1..(i - 1) : stream[j] # n
    ELSE Len(stream) + n

\* the number itself: the order of equal counts that C9 states
ByValue(stream, n) == n

\* more occurrences, or as many and the earlier place
Ranks(occ_a, occ_b, place_a, place_b) ==
    \/ occ_a > occ_b
    \/ occ_a = occ_b /\ place_a < place_b

\* a ranks before b in the history
Before(stream, Place(_, _), a, b) ==
    Ranks(Occurrences(stream, a), Occurrences(stream, b),
          Place(stream, a), Place(stream, b))

\* out is, ascending, the `picks` first of the numbers of the history and of
\* 1..total_numbers in the ranking by descending count in which Place orders
\* the numbers of equal count; the unobserved numbers of the range, with no
\* occurrence, come last, ascending
IsTopOf(out, chosen, stream, total_numbers, picks, Place(_, _)) ==
    /\ Len(out) = picks
    /\ StrictlyAscending(out)
    /\ chosen \subseteq Range(stream) \cup 1..total_numbers
    /\ \A a \in chosen :
         \A b \in (Range(stream) \cup 1..total_numbers) \ chosen :
            Before(stream, Place, a, b)

IsTop(out, Place(_, _)) ==
    IsTopOf(out, Range(out), Stream, pin.total_numbers, pin.picks, Place)

\* C9, as stated: the list returned is, sorted, the first `picks` numbers of
\* the ranking by descending count with equal counts by ascending number,
\* the unobserved numbers of 1..total_numbers last.
C9_TiesByValue == ppc = "done" => IsTop(pout, ByValue)

\* C9, amended: equal counts are ranked in the order in which the numbers
\* first appear in the history as it is read (most recent draw first, each
\* draw ascending); the rest is as stated.
C9_TiesByFirstSeen == ppc = "done" => IsTop(pout, FirstSeen)

\* a history of two draws whose equal counts the two rankings order
\* differently
C9_Witness ==
    /\ ppc = "done"
    /\ pin.site = "loto_main"
    /\ Len(pin.draws) = 2
    /\ IsTop(pout, FirstSeen)
    /\ ~IsTop(pout, ByValue)

\* C10: the list returned has `picks` strictly ascending numbers of
\* 1..total_numbers, none of them in the recent draw unless fewer than
\* `picks` numbers of the range are outside the recent draw.
C10_AvoidsRecent ==
    ppc = "done" =>
        /\ Len(pout) = pin.picks
        /\ StrictlyAscending(pout)
        /\ Range(pout) \subseteq 1..pin.total_numbers
        /\ Cardinality((1..pin.total_numbers) \ Range(pin.draws[1])) >= pin.picks
              => Range(pout) \cap Range(pin.draws[1]) = {}

\* two stars chosen for a last draw of two stars of the range
C10_Witness ==
    /\ ppc = "done"
    /\ pin.site = "euro_stars"
    /\ Len(pout) = 2
    /\ Range(pout) \cap Range(pin.draws[1]) = {}

(***************************************************************************)
(* Properties of the prediction entry points.                              *)
(***************************************************************************)
\* extra_count of the game profile
ExtraCount(g) == IF g = "loto" THEN 1 ELSE 2

MethodsInOrder ==
    <<"Fréquence historique", "Tendance récente", "Évitement du dernier tirage">>

\* C11: the entry point returns the empty list when the game has no stored
\* draw, and otherwise three predictions, by historical frequency, recent
\* trend and avoid-last-draw in this order, each with five strictly
\* ascending main numbers and extra_count strictly ascending extra numbers.
C11_ThreePredictions ==
    ppc = "returned" =>
        IF db[pin.game] = {} THEN pout = <<>>
        ELSE /\ Len(pout) = 3
             /\ \A i \in 1..3 :
                   /\ pout[i].method = MethodsInOrder[i]
                   /\ Len(pout[i].main_numbers) = 5
                   /\ StrictlyAscending(pout[i].main_numbers)
                   /\ Len(pout[i].extra_numbers) = ExtraCount(pin.game)
                   /\ StrictlyAscending(pout[i].extra_numbers)

\* three EuroMillions predictions returned for a history of one draw
C11_Witness ==
    /\ ppc = "returned"
    /\ pin.game = "euromillions"
    /\ Cardinality(db["euromillions"]) = 1
    /\ Len(pout) = 3

(***************************************************************************)
(* Properties of the extra number of a Loto row.                           *)
(***************************************************************************)
\* the positions of the cells of a row dict that stand under an extra
\* keyword and hold a number
NumericExtraCells(row) ==
    {i \in 1..Len(row) :
        /\ HasAnyTerm(row[i][1], ExtraTerms)
        /\ _parse_int(row[i][2]).tag = "int"}

\* the value of the first of them in column order
FirstNumericExtra(row) ==
    LET i == CHOOSE k \in NumericExtraCells(row) :
                 \A j \in NumericExtraCells(row) : k <= j
    IN _parse_int(row[i][2]).v

MaxSheetRows == 3

\* the rows of the workbooks
SheetRows ==
    { \* an empty row
      <<NoneCell, Txt(""), NoneCell>>,
      \* a title
      LotoTitle,
      \* four main-number columns and the draw index under a main prefix
      <<Txt("Date"), Txt("Boule 1"), Txt("Boule 2"), Txt("Boule 3"),
        Txt("Boule 4"), Txt("Numero tirage"), Txt("Chance")>>,
      \* no extra column
      <<Txt("Date"), Txt("Boule 1"), Txt("Boule 2"), Txt("Boule 3"),
        Txt("Boule 4"), Txt("Boule 5")>>,
      \* no date column
      <<Txt("Tirage"), Txt("N1"), Txt("N2"), Txt("N3"), Txt("N4"), Txt("N5"),
        Txt("Bonus")>>,
      \* header rows
      LotoHeader,
      <<Txt("Date du tirage"), Txt("N1"), Txt("N2"), Txt("N3"), Txt("N4"),
        Txt("N5"), Txt("Complementaire")>>,
      \* a data row
      <<Txt("01/02/2020"), Num(1), Num(3), Num(1), Num(2), Num(4), Num(5),
        NoneCell, Num(7), NoneCell>> }

Workbooks == SeqsUpTo(SheetRows, MaxSheetRows)

NotStarted == [header_index |-> 0, next |-> 0, yielded |-> <<>>]

InitPrepare ==
    /\ IngestionIdle
    /\ pin \in {[rows |-> rows] : rows \in Workbooks}
    /\ pout = NotStarted
    /\ ppc = "ready"

\* the scan finds a header row: the generator goes on to the rows after it
DetectHeader ==
    /\ ppc = "ready"
    /\ pout' \in {[header_index |-> header_index, next |-> header_index + 1,
                    yielded |-> <<>>] :
                      header_index \in {HeaderIndexFrom(pin.rows, 1)} \ {0}}
    /\ ppc' = "rows"
    /\ UNCHANGED <<pin, ivars>>

\* the scan ends with header_index None: FetchError
HeaderNotFound ==
    /\ ppc = "ready"
    /\ HeaderIndexFrom(pin.rows, 1) = 0
    /\ ppc' = "raised"
    /\ UNCHANGED <<pin, pout, ivars>>

\* one pass of the loop over rows[header_index + 1 :]
NextRow ==
    /\ ppc = "rows"
    /\ pout.next <= Len(pin.rows)
    /\ LET row_data == RowDataFrom(pin.rows[pout.next],
                                   NormalizedRow(pin.rows[pout.header_index]),
                                   1, <<>>)
       IN pout' = [pout EXCEPT
                      !.next = @ + 1,
                      !.yielded = IF row_data = <<>> THEN @
                                  ELSE Append(@, row_data)]
    /\ UNCHANGED <<pin, ppc, ivars>>

Exhausted ==
    /\ ppc = "rows"
    /\ pout.next > Len(pin.rows)
    /\ ppc' = "exhausted"
    /\ UNCHANGED <<pin, pout, ivars>>

NextPrepare == DetectHeader \/ HeaderNotFound \/ NextRow \/ Exhausted

SpecPrepare == InitPrepare /\ [][NextPrepare]_vars

(***************************************************************************)
(* Properties of the header detection.                                     *)
(***************************************************************************)
\* a row qualifies as the header: a cell containing "date", at least five
\* cells starting with a main-number prefix and not containing "tirage",
\* and a cell containing an extra keyword (cells as normalised)
Qualifies(row) ==
    LET cells == NormalizedRow(row)
    IN /\ \E i \in 1..Len(cells) : Contains(cells[i], "date")
       /\ Cardinality({i \in 1..Len(cells) :
              /\ \/ StartsWith(cells[i], "boule") \/ StartsWith(cells[i], "numero")
                 \/ StartsWith(cells[i], "num") \/ StartsWith(cells[i], "n_")
              /\ ~Contains(cells[i], "tirage")}) >= 5
       /\ \E i \in 1..Len(cells) :
              \/ Contains(cells[i], "chance") \/ Contains(cells[i], "bonus")
              \/ Contains(cells[i], "complementaire")

QualifiesOfRow == [row \in SheetRows |-> Qualifies(row)]

QualifyingRows == {i \in 1..Len(pin.rows) : QualifiesOfRow[pin.rows[i]]}

\* the dict of a row under a header row
DictUnder == [header \in SheetRows |-> [row \in SheetRows |->
                 RowDataFrom(row, NormalizedRow(header), 1, <<>>)]]

\* the dict of row i under the header row h
DictOfRow(h, i) == DictUnder[pin.rows[h]][pin.rows[i]]

\* C13: the header is the first qualifying row from the top; every dict
\* yielded comes from a row after it, in row order, and no row before it or
\* the header itself is yielded; when no row qualifies the generator raises
\* the header-not-found error and has yielded nothing.
C13_FirstQualifyingRow ==
    /\ ppc = "raised" => (QualifyingRows = {} /\ pout.yielded = <<>>)
    /\ (ppc # "ready" /\ QualifyingRows = {}) => ppc = "raised"
    /\ ppc \in {"rows", "exhausted"} =>
          LET h == pout.header_index
              read == {i \in (h + 1)..(pout.next - 1) : DictOfRow(h, i) # <<>>}
          IN /\ h \in QualifyingRows
             /\ \A i \in QualifyingRows : h <= i
             /\ Len(pout.yielded) = Cardinality(read)
             /\ \A k \in 1..Len(pout.yielded) :
                   \E i \in read :
                      /\ pout.yielded[k] = DictOfRow(h, i)
                      /\ Cardinality({j \in read : j < i}) = k - 1
             /\ ppc = "exhausted" =>
                   /\ pout.next = Len(pin.rows) + 1
                   /\ pout.yielded = _prepare_lotto_rows(pin.rows).rows

\* a workbook with a row of header-like labels above the header: the
\* second row was selected and the one row after it yielded
C13_Witness ==
    /\ ppc = "exhausted"
    /\ Len(pin.rows) = 3
    /\ pin.rows[1] # LotoTitle
    /\ NormalizedRow(pin.rows[1])[1] = "date"
    /\ pout.header_index = 2
    /\ Len(pout.yielded) = 1

=============================================================================
